---- MODULE Spec2Model ----
(***************************************************************************)
(* Blocked Gibbs sampler of dgeclust (nbinom_HDP.py): the model state of   *)
(* NBinomModel and one sweep (NBinomModel.update) with its group-level     *)
(* update units (_update_group_vars).                                      *)
(*                                                                         *)
(* Discrete state (indicators c, d, z, the occupancy caches, iter) is      *)
(* carried exactly.  Effects and the threshold are carried in tenths       *)
(* (thr = 0.3 is Thr = 3).  The real-valued samples log_phi, log_mu, lw,   *)
(* lu, eta and zeta enter the sweep only through the proposal weights and  *)
(* the likelihood values; the likelihood values of each Metropolis         *)
(* decision are inputs drawn from LogLikVals, and the decision is computed *)
(* from them as the code computes it.                                      *)
(***************************************************************************)
EXTENDS Integers, FiniteSets, TLC

(* the number of sweeps a run makes *)
MaxIter == 1

(* ---- constructor arguments (line 21) ---- *)
(* Count Data a model is constructed from: <<len(data.groups), number of  *)
(* rows of data.counts>>                                                   *)
DataDims == {<<2, 1>>, <<2, 2>>, <<2, 3>>, <<3, 1>>, <<3, 2>>}
(* truncation levels (outer, inner) a model is constructed with *)
TruncConfigs == {<<1, 1>>, <<2, 1>>, <<3, 1>>, <<1, 2>>, <<2, 2>>}
init_hpars == <<0, 1>>
Thr == 3

(* values a draw of rn.normal(m0, 1/sqrt(t0)) can take, in tenths *)
BetaVals == {-4, 1, 4}
(* values a draw of st.sample_normal_mean_prec_jeffreys can take *)
JeffreysDraws == {<<0, 1>>, <<1, 2>>}
(* processes whose numpy.random module state a unit can draw from *)
Workers == {"w1", "w2"}
NoStream == "none"

VARIABLES ngroups, nfeatures, shape, ntrunc, iter, pc, pool, beta, c, d, z, occ, iact, nact, m0, t0,
          stream, nonfinite, effDrawn

vars == <<ngroups, nfeatures, shape, ntrunc, iter, pc, pool, beta, c, d, z, occ, iact, nact, m0, t0,
          stream, nonfinite, effDrawn>>

Groups == 0 .. (ngroups - 1)
Units == 1 .. (ngroups - 1)
Features == 0 .. (nfeatures - 1)

(* Count Data: the count matrix has one column per group (one replicate   *)
(* each); the number of library sizes and the total of nreplicas may       *)
(* disagree with it.                                                       *)
NSamples == ngroups
DimVals == {NSamples, NSamples + 1}

(* the outer clusters (self.lw.size) and the inner slots (lu.size) *)
Clusters == 0 .. (ntrunc[1] - 1)
Slots == 0 .. (ntrunc[2] - 1)

Abs(x) == IF x < 0 THEN -x ELSE x

(* ---- floating-point likelihood values and the Metropolis rule ---- *)
Fin(n) == <<"fin", n>>
NaN == <<"nan", 0>>
NegInf == <<"ninf", 0>>
PosInf == <<"pinf", 0>>
LogLikVals == {Fin(-2), Fin(-1), NaN, NegInf}
Coins == {"low", "high"}

IsFinite(x) == x[1] = "fin"

(* a > b on floats: false whenever a NaN takes part *)
Greater(a, b) ==
    CASE a[1] = "nan" \/ b[1] = "nan" -> FALSE
      [] a[1] = "pinf" -> b[1] # "pinf"
      [] a[1] = "ninf" -> FALSE
      [] b[1] = "ninf" -> TRUE
      [] b[1] = "pinf" -> FALSE
      [] OTHER -> a[2] > b[2]

(* a - b on floats *)
Sub(a, b) ==
    CASE a[1] = "nan" \/ b[1] = "nan" -> NaN
      [] a[1] = "fin" /\ b[1] = "fin" -> Fin(a[2] - b[2])
      [] a[1] = b[1] -> NaN
      [] a[1] = "fin" -> IF b[1] = "ninf" THEN PosInf ELSE NegInf
      [] OTHER -> a

(* u < exp(x) for u uniform on [0, 1): certain for x >= 0, the coin for a *)
(* finite x < 0, false for exp(-inf) = 0 and for NaN                       *)
UnifLessExp(u, x) ==
    CASE x[1] = "nan" -> FALSE
      [] x[1] = "ninf" -> FALSE
      [] x[1] = "pinf" -> TRUE
      [] OTHER -> IF x[2] >= 0 THEN TRUE ELSE u = "low"

(* np.logical_or(loglik_ > loglik, rn.rand() < np.exp(loglik_ - loglik)) *)
Accept(loglik, loglik_, u) ==
    Greater(loglik_, loglik) \/ UnifLessExp(u, Sub(loglik_, loglik))

(* outcome of one decision: <<accepted, a non-finite value took part>> *)
MetropolisOutcomes ==
    {<<Accept(x[1], x[2], x[3]), ~IsFinite(x[1]) \/ ~IsFinite(x[2])>> :
        x \in LogLikVals \X LogLikVals \X Coins}

(* a bin no cell falls in: np.bincount gives 0 for both likelihoods *)
EmptyBinOutcomes == {<<Accept(Fin(0), Fin(0), u), FALSE>> : u \in Coins}

(* the vectorised decision over index set S, of which the bins in E are   *)
(* empty: <<idxs, a non-finite value took part>>, for every choice of the  *)
(* likelihood values and the uniform draws of the elements of S            *)
Decisions(S, E) ==
    {x \in (SUBSET S) \X BOOLEAN :
        /\ \A s \in E : <<s \in x[1], FALSE>> \in EmptyBinOutcomes
        /\ \A s \in S \ E : \E o \in MetropolisOutcomes : o[1] = (s \in x[1])
        /\ IF x[2] THEN \E s \in S \ E : <<s \in x[1], TRUE>> \in MetropolisOutcomes
                   ELSE \A s \in S \ E : <<s \in x[1], FALSE>> \in MetropolisOutcomes}

FeatureDecisions == Decisions(Features, {})

(* ---- construction helpers ---- *)

(* the pinning without self.c[0, :] = 0 *)
PinIndicatorsC_SlotOnly(cc) ==
    [g \in Groups |-> [l \in Slots |-> IF l = 0 THEN 0 ELSE cc[g][l]]]

(* self.c[0, :] = 0 and self.c[:, 0] = 0 *)
PinIndicatorsC(cc) ==
    [g \in Groups |-> [l \in Slots |-> IF g = 0 \/ l = 0 THEN 0 ELSE cc[g][l]]]

(* self.d[0, :] = 0 *)
PinIndicatorsD(dd) ==
    [g \in Groups |-> [f \in Features |-> IF g = 0 THEN 0 ELSE dd[g][f]]]

(* [c[d] for c, d in zip(self.c, self.d)] *)
Resolve(cc, dd) == [g \in Groups |-> [f \in Features |-> cc[g][dd[g][f]]]]

(* z left as resolved *)
Snap_None(zz, bb) == zz

(* the snap without np.abs *)
Snap_Signed(zz, bb) ==
    [g \in Groups |-> [f \in Features |->
        IF bb[zz[g][f]] < Thr THEN 0 ELSE zz[g][f]]]

(* self.z[np.abs(self.beta[self.z]) < self.thr] = 0 *)
Snap(zz, bb) ==
    [g \in Groups |-> [f \in Features |->
        IF Abs(bb[zz[g][f]]) < Thr THEN 0 ELSE zz[g][f]]]

(* the bincount of self.z instead of self.z[1:] *)
Bincount_AllGroups(zz) ==
    [k \in Clusters |-> Cardinality({x \in Groups \X Features : zz[x[1]][x[2]] = k})]

(* np.bincount(self.z[1:].ravel(), minlength=self.lw.size) *)
Bincount(zz) ==
    [k \in Clusters |-> Cardinality({x \in Units \X Features : zz[x[1]][x[2]] = k})]

(* self.occ > 0 *)
Active(oc) == [k \in Clusters |-> oc[k] > 0]

(* np.sum(self.iact) *)
CountActive(ia) == Cardinality({k \in Clusters : ia[k]})

(* a draw for every cluster, cluster 0 included *)
BetaDraws_Unpinned == [Clusters -> BetaVals]

(* np.r_[0, rn.normal(self.m0, 1/np.sqrt(self.t0), self.lw.size-1)] *)
BetaDraws == {b \in [Clusters -> BetaVals \cup {0}] :
                 b[0] = 0 /\ \A k \in Clusters \ {0} : b[k] \in BetaVals}

(* rn.choice(self.lw.size, (self.ngroups, ntrunc[1])) and the per-group   *)
(* rn.choice(lu.size, self.nfeatures), then the pinning                    *)
InitC == {PinIndicatorsC(cc) : cc \in [Groups -> [Slots -> Clusters]]}
InitD == {PinIndicatorsD(dd) : dd \in [Groups -> [Features -> Slots]]}

(* lib_sizes * np.exp(log_mu + beta), then st.nbinomln(counts, alpha, p): *)
(* numpy broadcasts two column counts when equal or when one of them is 1 *)
Broadcastable(a, b) == a = b \/ a = 1 \/ b = 1
BroadcastDim(a, b) == IF a = 1 THEN b ELSE a
ShapesOK(sh) ==
    /\ Broadcastable(sh.nlibs, sh.nreps)
    /\ Broadcastable(NSamples, BroadcastDim(sh.nlibs, sh.nreps))
ShapeMismatch == shape.nlibs # NSamples \/ shape.nreps # NSamples

(* __init__ reads len(data.groups), data.counts.shape and                 *)
(* data.counts.values only: it compares no two shapes and raises on none   *)
InitRaises(sh) == FALSE

Init ==
    /\ \E dims \in DataDims : ngroups = dims[1] /\ nfeatures = dims[2]
    /\ shape \in [nlibs : DimVals, nreps : DimVals]
    /\ ntrunc \in TruncConfigs
    /\ iter = 0
    /\ pc = IF InitRaises(shape) THEN "failed" ELSE "ready"
    /\ pool = "none"
    /\ m0 = init_hpars[1]
    /\ t0 = init_hpars[2]
    /\ beta \in BetaDraws
    /\ c \in InitC
    /\ d \in InitD
    /\ z = Snap(Resolve(c, d), beta)
    /\ occ = Bincount(z)
    /\ iact = Active(occ)
    /\ nact = CountActive(iact)
    /\ stream = [g \in Units |-> NoStream]
    /\ nonfinite = FALSE
    /\ effDrawn = FALSE

(* ---- NBinomModel.update ---- *)

(* the call update(data, pool) and self.iter += 1 *)
UpdateBegin(p) ==
    /\ pc = "ready"
    /\ iter < MaxIter
    /\ iter' = iter + 1
    /\ pool' = p
    /\ pc' = "phi"
    /\ nonfinite' = FALSE
    /\ effDrawn' = FALSE
    /\ UNCHANGED <<ngroups, nfeatures, shape, ntrunc, beta, c, d, z, occ, iact, nact, m0, t0, stream>>

(* _update_phi: the first likelihood evaluation raises on data whose      *)
(* shapes do not broadcast; otherwise one decision per feature             *)
UpdatePhi ==
    /\ pc = "phi"
    /\ \/ /\ ~ShapesOK(shape)
          /\ pc' = "raised"
          /\ UNCHANGED nonfinite
       \/ /\ ShapesOK(shape)
          /\ \E o \in FeatureDecisions : nonfinite' = (nonfinite \/ o[2])
          /\ pc' = "mu"
    /\ UNCHANGED <<ngroups, nfeatures, shape, ntrunc, iter, pool, beta, c, d, z, occ, iact, nact, m0, t0,
                   stream, effDrawn>>

(* _update_mu *)
UpdateMu ==
    /\ pc = "mu"
    /\ \E o \in FeatureDecisions : nonfinite' = (nonfinite \/ o[2])
    /\ pc' = "beta"
    /\ UNCHANGED <<ngroups, nfeatures, shape, ntrunc, iter, pool, beta, c, d, z, occ, iact, nact, m0, t0,
                   stream, effDrawn>>

(* clusters no cell of z (all groups) resolves to: both bincounts are 0 *)
EmptyClusters(zz) ==
    {k \in Clusters : \A g \in Groups : \A f \in Features : zz[g][f] # k}

(* self.beta[idxs] = beta_[idxs]; self.beta[~self.iact] = beta_[~self.iact] *)
BetaAssign(bb, beta_, idxs, ia) ==
    [k \in Clusters |-> IF k \in idxs \/ ~ia[k] THEN beta_[k] ELSE bb[k]]

(* _update_beta *)
UpdateBeta ==
    /\ pc = "beta"
    /\ \E beta_ \in BetaDraws : \E o \in Decisions(Clusters, EmptyClusters(z)) :
          /\ beta' = BetaAssign(beta, beta_, o[1], iact)
          /\ nonfinite' = (nonfinite \/ o[2])
    /\ pc' = "units"
    /\ UNCHANGED <<ngroups, nfeatures, shape, ntrunc, iter, pool, c, d, z, occ, iact, nact, m0, t0,
                   stream, effDrawn>>

(* ---- _update_group_vars ---- *)

(* np.bincount(d, minlength=lu.size) *)
InnerOcc(dg) == [l \in Slots |-> Cardinality({f \in Features : dg[f] = l})]

(* d_ = rn.choice(lu.size, nfeatures); d[idxs] = d_[idxs] *)
UnitD(dg) ==
    {<<[f \in Features |-> IF f \in o[1] THEN d_[f] ELSE dg[f]], o[2]>> :
        d_ \in [Features -> Slots], o \in FeatureDecisions}

(* c_ = rn.choice(lw.size, c.size); c_[0] = 0 *)
CProposals == {p \in [Slots -> Clusters] : p[0] = 0}

(* c[idxs] = c_[idxs]; c[~iact] = c_[~iact], iact from the updated d *)
UnitC(cg, dg) ==
    LET inact == {l \in Slots : InnerOcc(dg)[l] = 0}
    IN  {<<[l \in Slots |-> IF l \in o[1] \/ l \in inact THEN c_[l] ELSE cg[l]],
           o[2]>> : c_ \in CProposals, o \in Decisions(Slots, inact)}

(* beta = self.beta[self.z][self.z > 0]; n = beta.size *)
EffectObs(zz) == Cardinality({x \in Groups \X Features : zz[x[1]][x[2]] > 0})

(* n > 3 in place of n > 2 *)
ResampleEffectHpars_Off(n) == n > 3

(* ... if n > 2 else (self.m0, self.t0) *)
ResampleEffectHpars(n) == n > 2

(* the results (c, d, a non-finite value took part) one unit can return   *)
(* for the rows cg, dg it is given                                         *)
UnitResults(cg, dg) ==
    UNION {{<<rc[1], rd[1], rd[2] \/ rc[2]>> : rc \in UnitC(cg, rd[1])} :
              rd \in UnitD(dg)}

(* the results of all the units in U, each for its own rows of cc and dd: *)
(* <<the units' c, the units' d, a non-finite value took part>>            *)
RECURSIVE MapResults(_, _, _)
MapResults(U, cc, dd) ==
    IF U = {} THEN {<<<<>>, <<>>, FALSE>>}
    ELSE LET g == CHOOSE x \in U : \A y \in U : x >= y
         IN  {<<[h \in U |-> IF h = g THEN r[1] ELSE f[1][h]],
                [h \in U |-> IF h = g THEN r[2] ELSE f[2][h]],
                f[3] \/ r[3]>> :
                 f \in MapResults(U \ {g}, cc, dd), r \in UnitResults(cc[g], dd[g])}

(* units whose call has not been made *)
Pending == {g \in Units : stream[g] = NoStream}

(* the statements of update after the units have returned: the snap, the  *)
(* occupancy caches and _update_hpars, for the indicators cc, dd and the   *)
(* units' resolved assignments zz                                          *)
Finish(cc, dd, zz) ==
    /\ c' = cc
    /\ d' = dd
    /\ z' = Snap(zz, beta)
    /\ occ' = Bincount(z')
    /\ iact' = Active(occ')
    /\ nact' = CountActive(iact')
    /\ IF ResampleEffectHpars(EffectObs(z'))
          THEN /\ \E h \in JeffreysDraws : m0' = h[1] /\ t0' = h[2]
               /\ effDrawn' = TRUE
          ELSE /\ UNCHANGED <<m0, t0>>
               /\ effDrawn' = FALSE
    /\ stream' = [g \in Units |-> NoStream]
    /\ pool' = "none"
    /\ pc' = "ready"

(* pool is None: map calls the units one after the other in the calling   *)
(* process, each on row views of self.c and self.d, which its assignments  *)
(* d[idxs] = d_[idxs], c[idxs] = c_[idxs], c[~iact] = c_[~iact] write      *)
RunUnit(g) ==
    /\ pc = "units"
    /\ pool = "none"
    /\ g \in Pending
    /\ \A h \in Pending : g <= h
    /\ stream' = [stream EXCEPT ![g] = "main"]
    /\ \E r \in UnitResults(c[g], d[g]) :
          /\ c' = [c EXCEPT ![g] = r[1]]
          /\ d' = [d EXCEPT ![g] = r[2]]
          /\ nonfinite' = (nonfinite \/ r[3])
    /\ UNCHANGED <<ngroups, nfeatures, shape, ntrunc, iter, pc, pool, beta, z, occ, iact, nact, m0, t0, effDrawn>>

(* pool is None: the assignment of the returned tuples (the views and the *)
(* fresh c[d]) and the rest of update                                      *)
UpdateMerge ==
    /\ pc = "units"
    /\ pool = "none"
    /\ Pending = {}
    /\ Finish(c, d, [g \in Groups |-> IF g = 0 THEN z[g] ELSE Resolve(c, d)[g]])
    /\ UNCHANGED <<ngroups, nfeatures, shape, ntrunc, iter, beta, nonfinite>>

(* pool.map: every unit's arguments are pickled to a worker process *)
PoolDispatch ==
    /\ pc = "units"
    /\ pool = "pool"
    /\ Pending = Units
    /\ stream' \in [Units -> Workers]
    /\ UNCHANGED <<ngroups, nfeatures, shape, ntrunc, iter, pc, pool, beta, c, d, z, occ, iact, nact, m0, t0,
                   nonfinite, effDrawn>>

(* pool.map returns: every unit has run in its worker on its copies; the  *)
(* assignment of the returned tuples and the rest of update                *)
PoolCollect ==
    /\ pc = "units"
    /\ pool = "pool"
    /\ Pending = {}
    /\ \E r \in MapResults(Units, c, d) :
          /\ nonfinite' = (nonfinite \/ r[3])
          /\ LET cc == [g \in Groups |-> IF g = 0 THEN c[g] ELSE r[1][g]]
                 dd == [g \in Groups |-> IF g = 0 THEN d[g] ELSE r[2][g]]
             IN  Finish(cc, dd, [g \in Groups |->
                                   IF g = 0 THEN z[g] ELSE Resolve(cc, dd)[g]])
    /\ UNCHANGED <<ngroups, nfeatures, shape, ntrunc, iter, beta>>

Next ==
    \/ \E p \in {"none", "pool"} : UpdateBegin(p)
    \/ UpdatePhi
    \/ UpdateMu
    \/ UpdateBeta
    \/ \E g \in Units : RunUnit(g)
    \/ UpdateMerge
    \/ PoolDispatch
    \/ PoolCollect

Spec == Init /\ [][Next]_vars

(* every sweep called with the sequential mapper (pool is None) *)
NextSeq ==
    \/ UpdateBegin("none")
    \/ UpdatePhi
    \/ UpdateMu
    \/ UpdateBeta
    \/ \E g \in Units : RunUnit(g)
    \/ UpdateMerge

SpecSeq == Init /\ [][NextSeq]_vars

(* ---- the claims ---- *)

NonNullCells(zz) == {x \in Groups \X Features : zz[x[1]][x[2]] # 0}
BelowThr(k) == Abs(beta[k]) < Thr
AfterSweep == pc = "ready" /\ iter > 0

(* C1: the reference group is all-null after construction, after every    *)
(* sweep and at every step of a sweep: c[0][l] = 0, d[0][f] = 0 and        *)
(* z[0][f] = 0 for every inner slot l and feature f.                       *)
C1_ReferenceGroupNull ==
    /\ \A l \in Slots : c[0][l] = 0
    /\ \A f \in Features : d[0][f] = 0 /\ z[0][f] = 0

(* a sweep has completed and moved another group off the null cluster *)
C1_Witness ==
    /\ AfterSweep
    /\ \E g \in Units : \E l \in Slots : c[g][l] # 0
    /\ \E g \in Units : \E f \in Features : d[g][f] # 0 /\ z[g][f] # 0
    /\ \A l \in Slots : c[0][l] = 0

(* C2: after construction and at the end of every sweep, with thr > 0, no *)
(* cell has a non-null combined cluster whose effect magnitude is below    *)
(* thr, and occ[0] is exactly the number of cells of the groups >= 1 whose *)
(* resolved effect magnitude is below thr.                                 *)
C2_ThresholdSnap ==
    (pc = "ready" /\ Thr > 0) =>
        /\ \A g \in Groups : \A f \in Features : z[g][f] # 0 => ~BelowThr(z[g][f])
        /\ occ[0] = Cardinality({x \in Units \X Features : BelowThr(z[x[1]][x[2]])})

(* a sweep ended with a cell whose slot points to a sub-threshold cluster *)
C2_Witness ==
    /\ AfterSweep
    /\ \E g \in Units : \E f \in Features :
          /\ c[g][d[g][f]] # 0
          /\ BelowThr(c[g][d[g][f]])
          /\ z[g][f] = 0
          /\ occ[0] > 0

(* C3: while the units of step 5 run (from the dispatch of the first to   *)
(* the return of the last), no field of Model State changes.               *)
C3_UnitsReadOnly ==
    [][(pc = "units" /\ pc' = "units") =>
          UNCHANGED <<iter, beta, c, d, z, occ, iact, nact, m0, t0>>]_vars

(* C4: a sweep in which a likelihood evaluation yielded a non-finite      *)
(* value is aborted: it does not go on to the next step, nor complete.     *)
C4_NonFiniteAborts == nonfinite => pc = "raised"

(* C5: Count Data whose library sizes or replicate total disagree with    *)
(* the count matrix's columns fails at construction: no Model State.       *)
C5_MismatchFailsAtConstruction == ShapeMismatch => pc = "failed"

(* C6: within a sweep every unit draws from a random stream of its own:   *)
(* not the orchestrator's, and not another unit's.                         *)
C6_IndependentStreams ==
    \A g \in Units : stream[g] # NoStream =>
        /\ stream[g] # "main"
        /\ \A h \in Units \ {g} : stream[h] # stream[g]

(* C7: the step that ends a sweep leaves (m0, t0) as they are and draws   *)
(* nothing when fewer than 3 cells are non-null, resamples them when 3 or  *)
(* more are, and completes without error; no other step changes them.      *)
C7_EffectHparsSkip ==
    [][/\ (pc = "units" /\ pc' # "units") =>
            /\ pc' = "ready"
            /\ IF Cardinality(NonNullCells(z')) < 3
                  THEN m0' = m0 /\ t0' = t0 /\ ~effDrawn'
                  ELSE effDrawn' /\ <<m0', t0'>> \in JeffreysDraws
       /\ ~(pc = "units" /\ pc' # "units") => (m0' = m0 /\ t0' = t0)]_vars

(* a sweep ended with exactly 2 non-null cells and the update skipped *)
C7_Witness ==
    /\ AfterSweep
    /\ Cardinality(NonNullCells(z)) = 2
    /\ ~effDrawn
    /\ m0 = init_hpars[1] /\ t0 = init_hpars[2]

RECURSIVE SumOver(_, _)
SumOver(f, S) ==
    IF S = {} THEN 0
    ELSE LET k == CHOOSE x \in S : TRUE IN f[k] + SumOver(f, S \ {k})

(* C8: after construction and at the end of every sweep the caches agree  *)
(* with z: occ[k] counts the cells of groups >= 1 with z = k, iact[k] is   *)
(* occ[k] > 0, nact counts the active k, and occ sums to                   *)
(* (ngroups - 1) * nfeatures.                                              *)
C8_OccupancyCaches ==
    pc = "ready" =>
        /\ \A k \in Clusters :
              /\ occ[k] = Cardinality({x \in Units \X Features : z[x[1]][x[2]] = k})
              /\ iact[k] = (occ[k] > 0)
        /\ nact = Cardinality({k \in Clusters : iact[k]})
        /\ SumOver(occ, Clusters) = (ngroups - 1) * nfeatures

(* a sweep ended with an active and an inactive cluster *)
C8_Witness ==
    /\ AfterSweep
    /\ \E k \in Clusters : occ[k] > 0 /\ iact[k]
    /\ \E k \in Clusters : occ[k] = 0 /\ ~iact[k]
    /\ nact = 1

(* C9: after construction and at the end of every sweep, z[g][f] is       *)
(* c[g][d[g][f]] when that cluster's effect magnitude is at least thr, and *)
(* 0 otherwise.                                                            *)
C9_CombinedClusterDetermined ==
    pc = "ready" =>
        \A g \in Groups : \A f \in Features :
            z[g][f] = IF Abs(beta[c[g][d[g][f]]]) >= Thr THEN c[g][d[g][f]] ELSE 0

(* a sweep ended with a cell resolved through a negative effect and kept *)
C9_Witness ==
    /\ AfterSweep
    /\ \E g \in Units : \E f \in Features :
          z[g][f] # 0 /\ z[g][f] = c[g][d[g][f]] /\ beta[z[g][f]] < 0

(* C10: beta[0] = 0 in every reachable state. *)
C10_NullEffectPinned == beta[0] = 0

(* the cluster-effect update of a sweep has run while cluster 0 had zero  *)
(* occupancy, so that it was resampled with the inactive clusters          *)
C10_Witness ==
    /\ pc = "units"
    /\ ~iact[0]
    /\ occ[0] = 0
    /\ beta[0] = 0

TypeOK ==
    /\ pc \in {"ready", "phi", "mu", "beta", "units", "raised", "failed"}
    /\ iter \in 0 .. MaxIter
    /\ <<ngroups, nfeatures>> \in DataDims
    /\ ntrunc \in TruncConfigs
    /\ beta \in [Clusters -> BetaVals \cup {0}]
    /\ c \in [Groups -> [Slots -> Clusters]]
    /\ d \in [Groups -> [Features -> Slots]]
    /\ z \in [Groups -> [Features -> Clusters]]

====
